---- MODULE Spec2Model ----
(***************************************************************************)
(* Model of run_container_plugin.py: the kill-containers step.             *)
(*                                                                         *)
(* One run of kill_containers(cfg) is modelled as a sequence of steps, one *)
(* per round trip to the cluster (opening the session, reading a pod,      *)
(* exec in a pod) plus the pure steps between them.  The cluster API and   *)
(* the kubeconfig loader are the environment: each call either raises or   *)
(* returns, and what it returns is chosen from small sets.                 *)
(***************************************************************************)
EXTENDS Integers, Sequences, FiniteSets, TLC

VARIABLES
    cfg,                \* the KillContainerConfig passed to kill_containers
    candidates,         \* cluster: pods of cfg.namespace matching cfg.label_selector, in listing order
    pc,                 \* position inside kill_containers
    session,            \* the ApiClient of the with statement: "none", "open", "closed"
    sessionPath,        \* the kubeconfig location the session was opened from
    pods,               \* local variable pods (line 170)
    i,                  \* loop variable of line 178
    containers,         \* local variable containers (line 180)
    killed_containers,  \* local variable killed_containers (line 176)
    outcome,            \* the returned (tag, output) pair; tag "none" while running
    listCalls,          \* number of list_namespaced_pod calls issued
    getCalls,           \* the read_namespaced_pod calls issued, in order: pod argument and result
    execCalls,          \* the exec calls issued, in order: pod and container arguments
    raisedAt,           \* step whose exception reached the except clause, or "none"
    kubeconfigs,        \* environment: what the kubeconfig at each location holds
    cluster,            \* environment: all pods of the namespace, in the API's listing order
    listed              \* results of the calls of list_pods, in order

envVars == <<kubeconfigs, cluster, listed>>

vars == <<cfg, candidates, pc, session, sessionPath, pods, i, containers,
          killed_containers, outcome, listCalls, getCalls, execCalls, raisedAt,
          kubeconfigs, cluster, listed>>

-----------------------------------------------------------------------------
(* Bounds *)

MaxKill == 4
MaxPods == 3
MaxListCalls == 2

-----------------------------------------------------------------------------
(* Values *)

None == "None"

\* config.KUBE_CONFIG_DEFAULT_LOCATION
KUBE_CONFIG_DEFAULT_LOCATION == "~/.kube/config"

\* the CoreV1Api object built at line 168
core_v1 == "CoreV1Api"

Namespaces      == {None, "chaos"}
LabelSelectors  == {None, "app=web"}
ContainerNames  == {None, "app"}
KubeconfigPaths == {None, "/alt/kubeconfig"}

\* container lists a pod spec can declare
ContainerLists == {<<"app">>, <<"sidecar">>, <<"sidecar", "app">>}

PodNames == <<"web-0", "web-1", "web-2", "web-3">>

RECURSIVE SeqsUpTo(_, _)
SeqsUpTo(S, n) ==
    IF n = 0 THEN {<<>>}
    ELSE LET shorter == SeqsUpTo(S, n - 1)
         IN  shorter \cup {Append(s, x) : s \in {t \in shorter : Len(t) = n - 1}, x \in S}

\* the cluster states considered: up to MaxPods matching pods, each declaring
\* either the target container or only a sidecar
Clusters ==
    {[j \in 1..Len(cs) |-> [name |-> PodNames[j], containers |-> cs[j]]] :
        cs \in SeqsUpTo({<<"app">>, <<"sidecar">>}, MaxPods)}

\* the pods of a namespace with, for each, whether its labels match "app=web"
LabelledClusters ==
    {[j \in 1..Len(cs) |->
         [name |-> PodNames[j], containers |-> <<"app">>, labelled |-> cs[j]]] :
        cs \in SeqsUpTo(BOOLEAN, MaxPods)}

\* locations a kubeconfig is read from, and what a kubeconfig can hold
KubeconfigLocations == {KUBE_CONFIG_DEFAULT_LOCATION, "/alt/kubeconfig"}
KubeconfigContents  == {None, "config"}

\* non-success statuses of the list call
ApiStatuses == {"403", "500"}

\* KillContainerConfig (lines 113-155); command keeps its default
KillContainerConfig ==
    [namespace : Namespaces, container_name : ContainerNames, command : {"kill 1"},
     kill : 0..MaxKill, label_selector : LabelSelectors, kubeconfig_path : KubeconfigPaths]

Range(s) == {s[j] : j \in 1..Len(s)}

-----------------------------------------------------------------------------
(* Outputs *)

\* ContainerKillSuccessOutput (lines 99-104)
ContainerKillSuccessOutput(cs) == [tag |-> "success", containers |-> cs]

\* ContainerKillErrorOutput (lines 108-110); found is the count the message
\* was formatted with, 0 for the messages that carry no count
ContainerKillErrorOutput(msg, expected, found) ==
    [tag |-> "error", error |-> msg, expected |-> expected, found |-> found]

NoOutcome == [tag |-> "none"]

-----------------------------------------------------------------------------
(* Helpers of the run *)

\* setup_kubernetes (lines 13-15): the location the kubeconfig is read from
setup_kubernetes(kubeconfig_path) ==
    IF kubeconfig_path = None THEN KUBE_CONFIG_DEFAULT_LOCATION ELSE kubeconfig_path

ConfigCheckInverted(conf) == conf # None

\* line 18: kubeconfig.config is None
ConfigMissing(conf) == conf = None

\* line 167: the argument kill_containers passes to setup_kubernetes
SetupArg(c) == None

\* line 170: the value bound to pods
PodsExpr(c) == <<core_v1, c.label_selector, c.namespace>>

\* line 171: the guard of the first error return
NotEnoughPods(p, c) == Len(p) < c.kill

WithExitLeak(s) == s

\* leaving the with block (line 167): ApiClient.__exit__ closes the session
WithExit(s) == IF s = "open" THEN "closed" ELSE s

CaughtApiOnly(exc) == exc = "ApiException"

\* lines 194-197: which exceptions the except clause catches
Caught(exc) == TRUE

ExceptRetry(step, exc) ==
    IF step = "setup"
    THEN /\ session' = WithExit(session)
         /\ raisedAt' = step
         /\ outcome' = ContainerKillErrorOutput("traceback:" \o exc, 0, 0)
         /\ pc' = "done"
    ELSE /\ session' = session
         /\ raisedAt' = step
         /\ outcome' = outcome
         /\ pc' = "loop"

\* the except clause of kill_containers, reached from inside or outside the with block
Except(step, exc) ==
    /\ session' = WithExit(session)
    /\ raisedAt' = step
    /\ outcome' = IF Caught(exc)
                  THEN ContainerKillErrorOutput("traceback:" \o exc, 0, 0)
                  ELSE [tag |-> "uncaught", error |-> exc]
    /\ pc' = "done"

LoopDoneEarly(idx, c) == idx >= c.kill - 1

LoopDoneLate(idx, c) == idx > c.kill

\* line 178: range(cfg.kill) is exhausted
LoopDone(idx, c) == idx >= c.kill

ContainerInOrUnset(name, cs) == name = None \/ name \in Range(cs)

\* line 181: cfg.container_name in containers
ContainerIn(name, cs) == name \in Range(cs)

\* exec_cmd_in_pod (lines 50-76): the exec request sent for a pod; line 54
\* names the container only when one is given
exec_cmd_in_pod(pod_name, container) ==
    [pod |-> pod_name,
     container |-> container,
     branch |-> IF container # None THEN "container" ELSE "default"]

\* names bound at module level when kill_containers runs (lines 3-11 and the
\* definitions of the module)
ModuleNames ==
    {"sys", "typing", "dataclass", "field", "format_exc", "config", "client",
     "V1PodList", "V1Pod", "ApiException", "V1DeleteOptions", "validation",
     "plugin", "schema", "stream", "setup_kubernetes", "list_pods",
     "exec_cmd_in_pod", "get_containers_in_pod", "Container",
     "ContainerKillSuccessOutput", "ContainerKillErrorOutput",
     "KillContainerConfig", "kill_containers"}

\* line 186: pod.metadata is defined; pod is the CoreV1Api object, a str or
\* None, and none of them has that attribute
HasMetadata(pod) == pod \notin ({core_v1} \cup LabelSelectors \cup Namespaces)

\* lines 185-190: the exception raised while the record is built, "none" if
\* the statements go through
RecordFault(pod) ==
    IF ~HasMetadata(pod) THEN "AttributeError"
    ELSE IF "container_name" \notin ModuleNames \/ "time" \notin ModuleNames THEN "NameError"
    ELSE "none"

\* Container (lines 92-96)
Container(namespace, name, container) ==
    [namespace |-> namespace, name |-> name, container |-> container]

\* line 190: killed_containers[key] = c on a dict kept in insertion order
DictSet(d, key, c) ==
    IF \E j \in 1..Len(d) : d[j].key = key
    THEN [j \in 1..Len(d) |-> IF d[j].key = key THEN [key |-> key, value |-> c] ELSE d[j]]
    ELSE Append(d, [key |-> key, value |-> c])

\* readings of time.time_ns() within one run
Tokens == 0..MaxKill

-----------------------------------------------------------------------------
(* list_pods *)

\* line 34: the selector is passed to the API only when it is truthy
UsesSelector(label_selector) == label_selector # None

\* lines 35 and 37: the items list_namespaced_pod answers with, in the API's order
list_namespaced_pod(cl, label_selector) ==
    IF UsesSelector(label_selector)
    THEN SelectSeq(cl, LAMBDA p : p.labelled)
    ELSE cl

ListAccKept(prev) == prev

\* line 32: the list the names are collected in, given the list the previous
\* call returned
ListAcc(prev) == <<>>

PodNamesReversed(acc, items) ==
    acc \o [j \in 1..Len(items) |-> items[Len(items) + 1 - j].name]

\* lines 45-47: the name of every item is appended, in order
PodNamesOf(acc, items) == acc \o [j \in 1..Len(items) |-> items[j].name]

\* lines 38-44: the exception list_pods ends with when the API call raised
\* ApiException with the given status; logging is used at line 39
ListPodsRaises(status) ==
    IF "logging" \in ModuleNames
    THEN [kind |-> "raise", exc |-> "ApiException", status |-> status, api |-> status]
    ELSE [kind |-> "raise", exc |-> "NameError", status |-> None, api |-> status]

\* the list returned by the latest call of list_pods that returned
LastListed ==
    LET returned == SelectSeq(listed, LAMBDA r : r.kind = "return")
    IN  IF returned = <<>> THEN <<>> ELSE returned[Len(returned)].pods

\* the pods of cl selected by label_selector, as [name, containers]
Matching(cl, label_selector) ==
    LET sel == IF label_selector = None THEN cl ELSE SelectSeq(cl, LAMBDA p : p.labelled)
    IN  [j \in 1..Len(sel) |-> [name |-> sel[j].name, containers |-> sel[j].containers]]

\* lines 31-37 and 45-47: list_pods(core_v1, cfg.namespace, cfg.label_selector) returns
ListPodsOk ==
    /\ Len(listed) < MaxListCalls
    /\ listCalls' = listCalls + 1
    /\ listed' = Append(listed,
                        [kind |-> "return",
                         pods |-> PodNamesOf(ListAcc(LastListed),
                                             list_namespaced_pod(cluster, cfg.label_selector))])
    /\ UNCHANGED <<cfg, candidates, pc, session, sessionPath, pods, i, containers,
                   killed_containers, outcome, getCalls, execCalls, raisedAt,
                   kubeconfigs, cluster>>

\* lines 38-44: the list call answers with a non-success status
ListPodsFails ==
    /\ Len(listed) < MaxListCalls
    /\ listCalls' = listCalls + 1
    /\ \E status \in ApiStatuses : listed' = Append(listed, ListPodsRaises(status))
    /\ UNCHANGED <<cfg, candidates, pc, session, sessionPath, pods, i, containers,
                   killed_containers, outcome, getCalls, execCalls, raisedAt,
                   kubeconfigs, cluster>>

\* the state before list_pods is called: any cluster, any selector
InitList ==
    /\ cfg \in {c \in KillContainerConfig :
                    /\ c.namespace # None
                    /\ c.container_name # None
                    /\ c.kill = 1
                    /\ c.kubeconfig_path = None}
    /\ cluster \in LabelledClusters
    /\ candidates = Matching(cluster, cfg.label_selector)
    /\ kubeconfigs = [l \in KubeconfigLocations |-> "config"]
    /\ listed = <<>>
    /\ pc = "start"
    /\ session = "none"
    /\ sessionPath = None
    /\ pods = <<>>
    /\ i = 0
    /\ containers = <<>>
    /\ killed_containers = <<>>
    /\ outcome = NoOutcome
    /\ listCalls = 0
    /\ getCalls = <<>>
    /\ execCalls = <<>>
    /\ raisedAt = "none"

NextList ==
    \/ ListPodsOk
    \/ ListPodsFails

SpecList == InitList /\ [][NextList]_vars

-----------------------------------------------------------------------------
(* kill_containers *)

Init ==
    /\ cfg \in KillContainerConfig
    /\ candidates \in Clusters
    /\ cluster = [j \in 1..Len(candidates) |->
                     [name |-> candidates[j].name,
                      containers |-> candidates[j].containers,
                      labelled |-> TRUE]]
    /\ kubeconfigs \in [KubeconfigLocations -> KubeconfigContents]
    /\ listed = <<>>
    /\ pc = "start"
    /\ session = "none"
    /\ sessionPath = None
    /\ pods = <<>>
    /\ i = 0
    /\ containers = <<>>
    /\ killed_containers = <<>>
    /\ outcome = NoOutcome
    /\ listCalls = 0
    /\ getCalls = <<>>
    /\ execCalls = <<>>
    /\ raisedAt = "none"

\* line 167: setup_kubernetes(None) returns an ApiClient and the with block is entered
SetupOk ==
    /\ pc = "start"
    /\ ~ConfigMissing(kubeconfigs[setup_kubernetes(SetupArg(cfg))])
    /\ session' = "open"
    /\ sessionPath' = setup_kubernetes(SetupArg(cfg))
    /\ pc' = "select"
    /\ UNCHANGED envVars
    /\ UNCHANGED <<cfg, candidates, pods, i, containers, killed_containers,
                   outcome, listCalls, getCalls, execCalls, raisedAt>>

\* lines 18-22: the kubeconfig holds no configuration
SetupFails ==
    /\ pc = "start"
    /\ ConfigMissing(kubeconfigs[setup_kubernetes(SetupArg(cfg))])
    /\ Except("setup", "Exception")
    /\ UNCHANGED envVars
    /\ UNCHANGED <<cfg, candidates, sessionPath, pods, i, containers,
                   killed_containers, listCalls, getCalls, execCalls>>

\* lines 168-176: pods is bound, its length is tested, killed_containers is created
SelectEnough ==
    /\ pc = "select"
    /\ pods' = PodsExpr(cfg)
    /\ ~NotEnoughPods(pods', cfg)
    /\ killed_containers' = <<>>
    /\ i' = 0
    /\ pc' = "loop"
    /\ UNCHANGED envVars
    /\ UNCHANGED <<cfg, candidates, session, sessionPath, containers, outcome,
                   listCalls, getCalls, execCalls, raisedAt>>

\* lines 171-174: the first error return, which leaves the with block
SelectNotEnough ==
    /\ pc = "select"
    /\ pods' = PodsExpr(cfg)
    /\ NotEnoughPods(pods', cfg)
    /\ outcome' = ContainerKillErrorOutput("Not enough pods match the criteria",
                                           cfg.kill, Len(pods'))
    /\ session' = WithExit(session)
    /\ pc' = "done"
    /\ UNCHANGED envVars
    /\ UNCHANGED <<cfg, candidates, sessionPath, i, containers, killed_containers,
                   listCalls, getCalls, execCalls, raisedAt>>

\* lines 178-180 with 82-89: read_namespaced_pod returns and the names are collected.
\* The argument is pods[i], an element of the tuple of line 170 and not a pod
\* of the cluster; what the client library and the API server answer for it is
\* outside this module, so both a returned container list and a raised
\* exception (GetContainersFails) are kept.
GetContainersOk ==
    /\ pc = "loop"
    /\ ~LoopDone(i, cfg)
    /\ \E cs \in ContainerLists :
          /\ containers' = cs
          /\ getCalls' = Append(getCalls, [pod |-> pods[i + 1], result |-> cs])
    /\ pc' = "verify"
    /\ UNCHANGED envVars
    /\ UNCHANGED <<cfg, candidates, session, sessionPath, pods, i, killed_containers,
                   outcome, listCalls, execCalls, raisedAt>>

\* line 83: read_namespaced_pod raises
GetContainersFails ==
    /\ pc = "loop"
    /\ ~LoopDone(i, cfg)
    /\ getCalls' = Append(getCalls, [pod |-> pods[i + 1], result |-> <<"raise">>])
    /\ Except("get", "ApiException")
    /\ UNCHANGED envVars
    /\ UNCHANGED <<cfg, candidates, sessionPath, pods, i, containers,
                   killed_containers, listCalls, execCalls>>

\* lines 181-182 with 50-79: the container is declared and the exec returns
ExecOk ==
    /\ pc = "verify"
    /\ ContainerIn(cfg.container_name, containers)
    /\ execCalls' = Append(execCalls, exec_cmd_in_pod(pods[i + 1], cfg.container_name))
    /\ pc' = "record"
    /\ UNCHANGED envVars
    /\ UNCHANGED <<cfg, candidates, session, sessionPath, pods, i, containers,
                   killed_containers, outcome, listCalls, getCalls, raisedAt>>

\* lines 77-78: the exec raises
ExecFails ==
    /\ pc = "verify"
    /\ ContainerIn(cfg.container_name, containers)
    /\ execCalls' = Append(execCalls, exec_cmd_in_pod(pods[i + 1], cfg.container_name))
    /\ Except("exec", "Exception")
    /\ UNCHANGED envVars
    /\ UNCHANGED <<cfg, candidates, sessionPath, pods, i, containers,
                   killed_containers, listCalls, getCalls>>

\* lines 183-184: the second error return
ContainerNotFound ==
    /\ pc = "verify"
    /\ ~ContainerIn(cfg.container_name, containers)
    /\ outcome' = ContainerKillErrorOutput("Cannot find the specified container", 0, 0)
    /\ session' = WithExit(session)
    /\ pc' = "done"
    /\ UNCHANGED envVars
    /\ UNCHANGED <<cfg, candidates, sessionPath, pods, i, containers, killed_containers,
                   listCalls, getCalls, execCalls, raisedAt>>

\* lines 185-190: the record is built and stored under a fresh reading of the
\* clock, or one of the statements raises
BuildRecord ==
    /\ pc = "record"
    /\ IF RecordFault(pods[i + 1]) = "none"
       THEN /\ \E t \in Tokens :
                 killed_containers' =
                     DictSet(killed_containers, t,
                             Container(cfg.namespace, pods[i + 1], cfg.container_name))
            /\ i' = i + 1
            /\ pc' = "loop"
            /\ UNCHANGED <<session, outcome, raisedAt>>
       ELSE /\ Except("record", RecordFault(pods[i + 1]))
            /\ UNCHANGED <<i, killed_containers>>
    /\ UNCHANGED envVars
    /\ UNCHANGED <<cfg, candidates, sessionPath, pods, containers,
                   listCalls, getCalls, execCalls>>

\* line 192: the loop is over, the with block is left and success is returned
ReturnSuccess ==
    /\ pc = "loop"
    /\ LoopDone(i, cfg)
    /\ session' = WithExit(session)
    /\ outcome' = ContainerKillSuccessOutput(killed_containers)
    /\ pc' = "done"
    /\ UNCHANGED envVars
    /\ UNCHANGED <<cfg, candidates, sessionPath, pods, i, containers, killed_containers,
                   listCalls, getCalls, execCalls, raisedAt>>

Next ==
    \/ SetupOk
    \/ SetupFails
    \/ SelectEnough
    \/ SelectNotEnough
    \/ GetContainersOk
    \/ GetContainersFails
    \/ ExecOk
    \/ ExecFails
    \/ ContainerNotFound
    \/ BuildRecord
    \/ ReturnSuccess

Spec == Init /\ [][Next]_vars

\* every call to the cluster returns or raises: a run that can take a step
\* eventually takes one
FairSpec == Spec /\ WF_vars(Next)

TypeOK ==
    /\ cfg \in KillContainerConfig
    /\ Len(candidates) <= MaxPods
    /\ Len(cluster) <= MaxPods
    /\ kubeconfigs \in [KubeconfigLocations -> KubeconfigContents]
    /\ Len(listed) <= MaxListCalls
    /\ pc \in {"start", "select", "loop", "verify", "record", "done"}
    /\ session \in {"none", "open", "closed"}
    /\ outcome.tag \in {"none", "success", "error", "uncaught"}
    /\ i \in 0..MaxKill
    /\ listCalls \in Nat

-----------------------------------------------------------------------------
(* Vocabulary of the properties *)

Done == pc = "done"

\* n: the pods of the namespace matching the selector; k: the requested count
n == Len(candidates)
k == cfg.kill

\* a valid TargetSpec: namespace and selection predicate present, kill >= 1
Valid(c) == c.namespace # None /\ c.label_selector # None /\ c.kill >= 1

\* the candidate at position j (from 0) declares the configured container
CandidateHas(j) == cfg.container_name \in Range(candidates[j + 1].containers)

\* no call to the cluster or to the kubeconfig loader raised
GatewayCallsSucceeded == raisedAt \notin {"setup", "get", "exec"}

NotEnoughMessage == "Not enough pods match the criteria"

-----------------------------------------------------------------------------
(* Properties *)

\* C1: with fewer matching pods than kill (n < k), the run returns the
\* "error" outcome and no exec call is ever issued.
C1_InsufficientPodsNoExec ==
    (Valid(cfg) /\ n < k) =>
        /\ execCalls = <<>>
        /\ Done => outcome.tag = "error"

\* C2: with n >= k, the container declared by each of the first k candidates
\* and every call succeeding, the run returns "success" with exactly k
\* records, the j-th naming the namespace, the j-th candidate and the container.
C2_SuccessWithKRecords ==
    ( /\ Done
      /\ Valid(cfg)
      /\ n >= k
      /\ \A j \in 0..(k - 1) : CandidateHas(j)
      /\ \A j \in 1..Len(getCalls) : ContainerIn(cfg.container_name, getCalls[j].result)
      /\ GatewayCallsSucceeded )
    =>
        /\ outcome.tag = "success"
        /\ Len(outcome.containers) = k
        /\ \A j \in 1..k :
              outcome.containers[j].value =
                  Container(cfg.namespace, candidates[j].name, cfg.container_name)

\* C3: when the candidate at position j < k is the first that lacks the
\* container, the run returns "error" and exactly j exec calls were issued.
C3_AbsentAtJGivesJExecs ==
    \A j \in 0..(MaxKill - 1) :
        ( /\ Done
          /\ Valid(cfg)
          /\ n >= k
          /\ j < k
          /\ ~CandidateHas(j)
          /\ \A e \in 0..(j - 1) : CandidateHas(e)
          /\ GatewayCallsSucceeded )
        =>
            /\ outcome.tag = "error"
            /\ Len(execCalls) = j

\* C4: kill_containers always returns a tagged outcome; a failure raised at
\* any step becomes the "error" outcome carrying the traceback, never an
\* escaping fault.
C4_NoFaultEscapes ==
    /\ outcome.tag \in {"none", "success", "error"}
    /\ Done => outcome.tag \in {"success", "error"}
    /\ raisedAt # "none" =>
          /\ Done
          /\ outcome.tag = "error"
          /\ outcome.error \in {"traceback:Exception", "traceback:ApiException",
                                "traceback:AttributeError", "traceback:NameError"}

C4_Witness ==
    /\ Done
    /\ raisedAt = "get"
    /\ session = "closed"
    /\ outcome.tag = "error"

\* C5: once acquired, the session is closed on every exit path; no outcome is
\* returned while the session is open.
C5_SessionReleased ==
    /\ Done => session # "open"
    /\ outcome.tag # "none" => session # "open"
    /\ (Done /\ sessionPath # None) => session = "closed"

C5_Witness ==
    /\ Done
    /\ raisedAt = "record"
    /\ execCalls # <<>>
    /\ session = "closed"

\* C6: the insufficient-pods error reports the kill count k and the number n
\* of pods discovered for the namespace and selector, and it is returned
\* exactly when n < k.
C6_MessageReportsDiscoveredCount ==
    (Done /\ Valid(cfg) /\ raisedAt = "none") =>
        /\ (outcome.tag = "error" /\ outcome.error = NotEnoughMessage) <=> n < k
        /\ (outcome.tag = "error" /\ outcome.error = NotEnoughMessage) =>
              (outcome.expected = k /\ outcome.found = n)

\* C7: the session is opened from cfg.kubeconfig_path, and from the default
\* location only when kubeconfig_path is absent.
C7_SessionFromKubeconfigPath ==
    session # "none" =>
        sessionPath = IF cfg.kubeconfig_path = None
                      THEN KUBE_CONFIG_DEFAULT_LOCATION
                      ELSE cfg.kubeconfig_path

\* C8: one outcome variant per invocation; "success" only when verification
\* and exec went through for all k pods; a failing iteration gives "error"
\* carrying a message and no records, also when earlier exec calls took effect.
C8_SuccessOnlyIfAllKilled ==
    /\ ~Done => outcome = NoOutcome
    /\ Done =>
          /\ outcome.tag \in {"success", "error"}
          /\ outcome.tag = "success" =>
                /\ DOMAIN outcome = {"tag", "containers"}
                /\ raisedAt = "none"
                /\ Len(getCalls) = k
                /\ Len(execCalls) = k
                /\ \A j \in 1..Len(getCalls) :
                      ContainerIn(cfg.container_name, getCalls[j].result)
          /\ outcome.tag = "error" =>
                DOMAIN outcome = {"tag", "error", "expected", "found"}
    /\ (Done /\ (raisedAt \in {"get", "exec", "record"}
                 \/ \E j \in 1..Len(getCalls) :
                       ~ContainerIn(cfg.container_name, getCalls[j].result)))
          => outcome.tag = "error"

C8_Witness ==
    /\ Done
    /\ Len(execCalls) >= 1
    /\ raisedAt = "record"
    /\ outcome.tag = "error"
    /\ "containers" \notin DOMAIN outcome

\* C11: the cluster operations of a run are issued in the order list (once),
\* then for each position in selection order the read of that candidate
\* followed by the exec on it; every candidate is read once, exec'd at most
\* once, and nothing is retried.
C11_ListThenReadExecInOrder ==
    Valid(cfg) =>
        /\ listCalls <= 1
        /\ getCalls # <<>> => listCalls = 1
        /\ Len(getCalls) <= n
        /\ \A j \in 1..Len(getCalls) : j <= n => getCalls[j].pod = candidates[j].name
        /\ Len(execCalls) <= Len(getCalls)
        /\ Len(getCalls) <= Len(execCalls) + 1
        /\ \A j \in 1..Len(execCalls) : execCalls[j].pod = getCalls[j].pod

\* C12: when the list call answers with a non-success status, list_pods
\* fails with the API error carrying that status and with no other fault.
C12_ListFailureCarriesStatus ==
    \A j \in 1..Len(listed) :
        listed[j].kind = "raise" =>
            /\ listed[j].exc = "ApiException"
            /\ listed[j].status = listed[j].api

\* position of a pod name in the API's listing of the namespace, 0 if absent
PositionInCluster(name) ==
    IF \E p \in 1..Len(cluster) : cluster[p].name = name
    THEN CHOOSE p \in 1..Len(cluster) : cluster[p].name = name
    ELSE 0

\* the pods the selection is to return for the selector of cfg
Selected ==
    {p \in 1..Len(cluster) : cfg.label_selector = None \/ cluster[p].labelled}

\* C13: a call of list_pods that returns gives the names of exactly the pods
\* matching the selector (all pods without a selector), each once, in the
\* API's order; with nothing matching it returns the empty list, not an error.
C13_SelectionExactAndOrdered ==
    \A j \in 1..Len(listed) :
        listed[j].kind = "return" =>
            LET r == listed[j].pods
            IN  /\ Len(r) = Cardinality(Selected)
                /\ {PositionInCluster(r[a]) : a \in 1..Len(r)} = Selected
                /\ \A a, b \in 1..Len(r) :
                      a < b => PositionInCluster(r[a]) < PositionInCluster(r[b])
                /\ Selected = {} => r = <<>>

C13_Witness ==
    /\ cfg.label_selector # None
    /\ Len(cluster) = 3
    /\ ~cluster[2].labelled
    /\ \E j \in 1..Len(listed) :
          listed[j].kind = "return" /\ listed[j].pods = <<cluster[1].name, cluster[3].name>>

\* C14: when the kubeconfig read by setup_kubernetes holds no configuration,
\* connecting fails, the run returns "error" and no list, get or exec
\* operation is issued.
C14_EmptyKubeconfigIsError ==
    kubeconfigs[setup_kubernetes(SetupArg(cfg))] = None =>
        /\ session = "none"
        /\ listCalls = 0
        /\ getCalls = <<>>
        /\ execCalls = <<>>
        /\ pc \in {"start", "done"}
        /\ Done => (outcome.tag = "error" /\ raisedAt = "setup")

C14_Witness ==
    /\ kubeconfigs[KUBE_CONFIG_DEFAULT_LOCATION] = None
    /\ Done
    /\ raisedAt = "setup"
    /\ outcome.tag = "error"
    /\ session = "none"

\* C15: a call of list_pods leaves the cluster as it is, and returns the same
\* sequence of names as every earlier call that returned.
C15_SelectionIdempotent ==
    [][Len(listed') = Len(listed) + 1 =>
          /\ cluster' = cluster
          /\ \A j \in 1..Len(listed) :
                (listed[j].kind = "return" /\ listed'[Len(listed')].kind = "return")
                    => listed'[Len(listed')].pods = listed[j].pods]_vars

C15_Witness ==
    /\ Len(listed) >= 2
    /\ listed[1].kind = "return"
    /\ listed[2].kind = "return"
    /\ Len(listed[1].pods) >= 2
    /\ listed[2].pods = listed[1].pods

\* C16: an exec call is issued only against a pod whose container list, read
\* in the same iteration, holds the configured container, only against the
\* pods at positions 0..k-1 of the selection, and never more than kill times.
C16_ExecOnlyVerifiedSelectedPods ==
    Valid(cfg) =>
        /\ Len(execCalls) <= k
        /\ \A j \in 1..Len(execCalls) :
              /\ j <= Len(getCalls)
              /\ getCalls[j].pod = execCalls[j].pod
              /\ cfg.container_name \in Range(getCalls[j].result)
              /\ \E p \in 1..n : p <= k /\ candidates[p].name = execCalls[j].pod

\* C17: when the read or the exec of the pod at position j raises, the run
\* ends there with "error": no read or exec follows, and no record is stored
\* for position j.
C17_FailureStopsTheRun ==
    raisedAt \in {"get", "exec"} =>
        /\ Done
        /\ outcome.tag = "error"
        /\ Len(getCalls) = i + 1
        /\ Len(killed_containers) <= i
        /\ raisedAt = "get" =>
              (getCalls[i + 1].result = <<"raise">> /\ Len(execCalls) = i)
        /\ raisedAt = "exec" => Len(execCalls) = i + 1

C17_Witness ==
    /\ Done
    /\ raisedAt = "exec"
    /\ Len(getCalls) = 1
    /\ Len(execCalls) = 1
    /\ killed_containers = <<>>
    /\ outcome.tag = "error"

\* C18: with container_name left unset the verification never matches: no
\* exec call is issued, a run whose first read returns ends with the
\* container-not-found error, and no exec is ever sent without a container.
C18_UnsetContainerNeverExecs ==
    /\ \A j \in 1..Len(execCalls) : execCalls[j].branch = "container"
    /\ cfg.container_name = None =>
          /\ execCalls = <<>>
          /\ Len(getCalls) <= 1
          /\ (Done /\ getCalls # <<>> /\ raisedAt = "none") =>
                (outcome.tag = "error" /\ outcome.error = "Cannot find the specified container")

C18_Witness ==
    /\ cfg.container_name = None
    /\ Done
    /\ Len(getCalls) = 1
    /\ getCalls[1].result = <<"sidecar", "app">>
    /\ execCalls = <<>>
    /\ outcome.tag = "error"
    /\ outcome.error = "Cannot find the specified container"

\* C19: every run ends with an outcome, after at most one list call, at most
\* k reads and at most k exec calls.
C19_Terminates ==
    /\ <>Done
    /\ [](/\ listCalls <= 1
          /\ Len(getCalls) <= k
          /\ Len(execCalls) <= k
          /\ Done => outcome.tag \in {"success", "error"})

C19_Witness ==
    /\ Done
    /\ k = 3
    /\ Len(getCalls) = 1
    /\ Len(execCalls) = 1
    /\ outcome.tag = "error"

\* C10: an invalid TargetSpec gives the "error" outcome and no list, get or
\* exec operation is issued for it.
C10_InvalidSpecRejected ==
    ~Valid(cfg) =>
        /\ listCalls = 0
        /\ getCalls = <<>>
        /\ execCalls = <<>>
        /\ Done => outcome.tag = "error"

====
